---- MODULE Spec2Model ----
(***************************************************************************)
(* Device capabilities of the AirScan (eSCL) backend: the capability       *)
(* document parser (devcaps_parse and its sub-parsers) and the resolution  *)
(* chooser (devcaps_source_choose_resolution) of airscan-devcaps.c.        *)
(*                                                                         *)
(* An XML element is a record [name, text, kids]: its qualified name, its  *)
(* text as a sequence of characters, and the sequence of its child         *)
(* elements (blank text nodes and comments are skipped by the cursor and   *)
(* are not represented).  A C pointer is a sequence of length at most one: *)
(* NULL is the empty sequence, Some(x) points to x.                        *)
(***************************************************************************)
EXTENDS Integers, Sequences, FiniteSets, TLC

VARIABLES xml, pc, i, j, err, model, make_and_model, caps, kind, src,
          wanted, chosen, iter

vars == <<xml, pc, i, j, err, model, make_and_model, caps, kind, src,
          wanted, chosen, iter>>

NULL == <<>>

Some(x) == <<x>>

Deref(p) == p[1]

Node(name, text, kids) == [name |-> name, text |-> text, kids |-> kids]

(***************************************************************************)
(* Tree cursor and helpers the parser is written against.                  *)
(***************************************************************************)

\* xml_iter_node_name_match: the current node's qualified name equals the
\* pattern (case-sensitive)
xml_iter_node_name_match(n, pattern) == n.name = pattern

\* xml_iter_node_value: the text of the node
xml_iter_node_value(n) == n.text

(***************************************************************************)
(* xml_iter: the cursor.  doc is the tree, path the indices that lead from *)
(* the root to the current node (one index per level entered); the cursor  *)
(* is at the end of a level when the last index is past the last child.    *)
(* enters, leaves, returns and unbalanced are history: the calls of        *)
(* xml_iter_enter and xml_iter_leave made so far, the sub-parsers that     *)
(* have returned, and those that returned with the cursor not where it     *)
(* was at their call.                                                      *)
(***************************************************************************)

XML_ITER_INIT ==
    [doc |-> Node("", <<>>, <<>>), path |-> <<>>,
     enters |-> 0, leaves |-> 0, returns |-> {}, unbalanced |-> {}]

RECURSIVE NodeAt(_, _)
NodeAt(n, path) ==
    IF path = <<>> THEN n ELSE NodeAt(n.kids[Head(path)], Tail(path))

Front(path) == SubSeq(path, 1, Len(path) - 1)

xml_iter_init(it, doc) == [it EXCEPT !.doc = doc, !.path = <<>>]

\* xml_iter_end: no more siblings at the current level
xml_iter_end(it) ==
    /\ it.path # <<>>
    /\ it.path[Len(it.path)] > Len(NodeAt(it.doc, Front(it.path)).kids)

\* the node the cursor is on
xml_iter_node(it) == NodeAt(it.doc, it.path)

\* xml_iter_enter: descend to the first child of the current node
xml_iter_enter(it) ==
    [it EXCEPT !.path = IF xml_iter_end(it) THEN @ ELSE @ \o <<1>>,
               !.enters = @ + 1]

\* xml_iter_next: advance to the next sibling
xml_iter_next(it) ==
    IF it.path = <<>> \/ xml_iter_end(it) THEN it
    ELSE [it EXCEPT !.path[Len(it.path)] = @ + 1]

\* xml_iter_leave: back to the node that was entered
xml_iter_leave(it) ==
    [it EXCEPT !.path = IF @ = <<>> THEN @ ELSE Front(@),
               !.leaves = @ + 1]

\* the cursor is where it was at it0, and as many levels were left as entered
iter_balanced(it0, it) ==
    /\ it.path = it0.path
    /\ it.enters - it0.enters = it.leaves - it0.leaves

\* the return of sub-parser fn that was called with the cursor at it0
iter_return(fn, it0, it) ==
    [it EXCEPT !.returns = @ \cup {fn},
               !.unbalanced = IF iter_balanced(it0, it) THEN @ ELSE @ \cup {fn}]

Digits == <<"0", "1", "2", "3", "4", "5", "6", "7", "8", "9">>

IsDigit(c) == \E d \in 1..10 : Digits[d] = c

DigitVal(c) == (CHOOSE d \in 1..10 : Digits[d] = c) - 1

RECURSIVE UintValue(_, _)
UintValue(t, n) ==
    IF n = 0 THEN 0 ELSE 10 * UintValue(t, n - 1) + DigitVal(t[n])

\* xml_iter_node_value_uint: the text parsed as an unsigned integer; an error
\* when the text is not one.  old is the value the output parameter holds.
xml_iter_node_value_uint(n, old) ==
    IF Len(n.text) > 0 /\ \A k \in 1..Len(n.text) : IsDigit(n.text[k])
    THEN [err |-> NULL, val |-> UintValue(n.text, Len(n.text))]
    ELSE [err |-> Some("XML: invalid unsigned integer"), val |-> old]

\* g_strcmp/strcmp on texts
StrEq(a, b) == a = b

Upper == <<"A", "D", "E", "F", "G", "I", "J", "M", "N", "P">>

Lower == <<"a", "d", "e", "f", "g", "i", "j", "m", "n", "p">>

ToLower(c) ==
    IF \E k \in 1..Len(Upper) : Upper[k] = c
    THEN Lower[CHOOSE k \in 1..Len(Upper) : Upper[k] = c]
    ELSE c

\* strcasecmp(a, b) == 0
StrCaseEq(a, b) ==
    /\ Len(a) = Len(b)
    /\ \A k \in 1..Len(a) : ToLower(a[k]) = ToLower(b[k])

\* array_of_word_sort: ascending order
RECURSIVE array_of_word_insert(_, _)
array_of_word_insert(s, x) ==
    IF s = <<>> THEN <<x>>
    ELSE IF x <= Head(s) THEN <<x>> \o s
    ELSE <<Head(s)>> \o array_of_word_insert(Tail(s), x)

RECURSIVE array_of_word_sort(_)
array_of_word_sort(s) ==
    IF s = <<>> THEN <<>>
    ELSE array_of_word_insert(array_of_word_sort(Tail(s)), Head(s))

array_of_word_len(s) == Len(s)

array_of_word_append(s, x) == Append(s, x)

Min2(a, b) == IF a < b THEN a ELSE b

SetMin(S) == CHOOSE x \in S : \A y \in S : x <= y

SetMax(S) == CHOOSE x \in S : \A y \in S : x >= y

SANE_Range(min, max, quant) == [min |-> min, max |-> max, quant |-> quant]

\* math_range_fit: clamp into [min, max], then round to the nearest multiple
\* of quant (counted from min), staying within the bounds
math_range_fit(r, v) ==
    IF v < r.min THEN r.min
    ELSE IF v > r.max THEN r.max
    ELSE IF r.quant = 0 THEN v
    ELSE Min2(r.min + (((v - r.min) + r.quant \div 2) \div r.quant) * r.quant,
              r.max)

RangeValues(r) ==
    {v \in r.min..r.max : r.quant = 0 \/ (v - r.min) % r.quant = 0}

Lcm(a, b) ==
    IF a = 0 THEN b
    ELSE IF b = 0 THEN a
    ELSE CHOOSE m \in 1..(a * b) :
            /\ m % a = 0 /\ m % b = 0
            /\ \A m2 \in 1..(m - 1) : ~(m2 % a = 0 /\ m2 % b = 0)

\* math_range_merge: the single range both ranges can satisfy, if there is
\* one; out is left as it was when there is none
math_range_merge(out, r1, r2) ==
    IF r1 = r2 THEN [ok |-> TRUE, out |-> r1]
    ELSE LET common == RangeValues(r1) \cap RangeValues(r2) IN
         IF common = {} THEN [ok |-> FALSE, out |-> out]
         ELSE [ok |-> TRUE,
               out |-> SANE_Range(SetMin(common), SetMax(common),
                                  Lcm(r1.quant, r2.quant))]

(***************************************************************************)
(* devcaps_source                                                          *)
(***************************************************************************)

DEVCAPS_SOURCE_RES_DISCRETE == "RES_DISCRETE"

DEVCAPS_SOURCE_RES_RANGE == "RES_RANGE"

DEVCAPS_SOURCE_HAS_SIZE == "HAS_SIZE"

\* devcaps_source_new: g_new0 zeroes every field
devcaps_source_new ==
    [flags |-> {},
     min_width |-> 0, max_width |-> 0, min_height |-> 0, max_height |-> 0,
     resolutions |-> <<>>,
     res_range |-> SANE_Range(0, 0, 0),
     win_x_range |-> SANE_Range(0, 0, 0),
     win_y_range |-> SANE_Range(0, 0, 0)]

(***************************************************************************)
(* devcaps_source_choose_resolution                                        *)
(***************************************************************************)

labs(x) == IF x < 0 THEN -x ELSE x

\* faulty variant: a later value replaces the current one only when it is
\* strictly closer
choose_replaces_strict(delta2, delta) == delta2 < delta

\* line 73: a later value replaces the current one when it is as close or closer
choose_replaces(delta2, delta) == delta2 <= delta

\* faulty variant: the scan stops one element early
choose_end_short(resolutions) == array_of_word_len(resolutions)

\* line 67: one past the last element (elements are numbered from 1)
choose_end(resolutions) == array_of_word_len(resolutions) + 1

\* lines 69-77: the scan over resolutions[2..]
RECURSIVE choose_resolution_scan(_, _, _, _, _)
choose_resolution_scan(resolutions, k, res, delta, w) ==
    IF ~(k < choose_end(resolutions)) THEN res
    ELSE LET res2 == resolutions[k]
             delta2 == labs(w - res2)
         IN IF choose_replaces(delta2, delta)
            THEN choose_resolution_scan(resolutions, k + 1, res2, delta2, w)
            ELSE choose_resolution_scan(resolutions, k + 1, res, delta, w)

devcaps_source_choose_resolution(s, w) ==
    IF DEVCAPS_SOURCE_RES_DISCRETE \in s.flags
    THEN LET res == s.resolutions[1]
             delta == labs(w - res)
         IN choose_resolution_scan(s.resolutions, 2, res, delta, w)
    ELSE math_range_fit(s.res_range, w)

(***************************************************************************)
(* Sub-parsers.  Each takes the element the cursor is on and the source    *)
(* being built and gives [err, src]; a loop over an element's children is  *)
(* a recursion over kids from position k.                                  *)
(***************************************************************************)

T_BlackAndWhite1 == <<"B", "l", "a", "c", "k", "A", "n", "d", "W", "h", "i", "t", "e", "1">>

T_Grayscale8 == <<"G", "r", "a", "y", "s", "c", "a", "l", "e", "8">>

T_RGB24 == <<"R", "G", "B", "2", "4">>

T_image_jpeg == <<"i", "m", "a", "g", "e", "/", "j", "p", "e", "g">>

T_image_png == <<"i", "m", "a", "g", "e", "/", "p", "n", "g">>

T_application_pdf == <<"a", "p", "p", "l", "i", "c", "a", "t", "i", "o", "n", "/", "p", "d", "f">>

\* lines 92-100: one child of scan:ColorModes
color_mode(n, flags) ==
    IF xml_iter_node_name_match(n, "scan:ColorMode")
    THEN IF StrEq(xml_iter_node_value(n), T_BlackAndWhite1)
         THEN flags \cup {"COLORMODE_BW1"}
         ELSE IF StrEq(xml_iter_node_value(n), T_Grayscale8)
         THEN flags \cup {"COLORMODE_GRAYSCALE8"}
         ELSE IF StrEq(xml_iter_node_value(n), T_RGB24)
         THEN flags \cup {"COLORMODE_RGB24"}
         ELSE flags
    ELSE flags

RECURSIVE color_modes_scan(_, _, _)
color_modes_scan(kids, k, flags) ==
    IF k > Len(kids) THEN flags
    ELSE color_modes_scan(kids, k + 1, color_mode(kids[k], flags))

devcaps_source_parse_color_modes(node, s) ==
    [err |-> NULL,
     src |-> [s EXCEPT !.flags = color_modes_scan(node.kids, 1, s.flags)]]

\* lines 115-124: one child of scan:DocumentFormats
document_format(n, flags) ==
    IF \/ xml_iter_node_name_match(n, "pwg:DocumentFormat")
       \/ xml_iter_node_name_match(n, "scan:DocumentFormatExt")
    THEN IF StrCaseEq(xml_iter_node_value(n), T_image_jpeg)
         THEN flags \cup {"FMT_JPEG"}
         ELSE IF StrCaseEq(xml_iter_node_value(n), T_image_png)
         THEN flags \cup {"FMT_PNG"}
         ELSE IF StrCaseEq(xml_iter_node_value(n), T_application_pdf)
         THEN flags \cup {"FMT_PDF"}
         ELSE flags
    ELSE flags

RECURSIVE document_formats_scan(_, _, _)
document_formats_scan(kids, k, flags) ==
    IF k > Len(kids) THEN flags
    ELSE document_formats_scan(kids, k + 1, document_format(kids[k], flags))

devcaps_source_parse_document_formats(node, s) ==
    [err |-> NULL,
     src |-> [s EXCEPT !.flags = document_formats_scan(node.kids, 1, s.flags)]]

\* an assignment err = xml_iter_node_value_uint(iter, &st.field), v its result
SetUint(st, field, v) == [st EXCEPT ![field] = v.val, !.err = v.err]

\* lines 146-151: one child of scan:DiscreteResolution; st = [x, y, err]
discrete_resolution_child(n, st) ==
    IF xml_iter_node_name_match(n, "scan:XResolution")
    THEN SetUint(st, "x", xml_iter_node_value_uint(n, st.x))
    ELSE IF xml_iter_node_name_match(n, "scan:YResolution")
    THEN SetUint(st, "y", xml_iter_node_value_uint(n, st.y))
    ELSE st

\* lines 145-152
RECURSIVE discrete_resolution_xy(_, _, _)
discrete_resolution_xy(kids, k, st) ==
    IF st.err # NULL \/ k > Len(kids) THEN st
    ELSE discrete_resolution_xy(kids, k + 1, discrete_resolution_child(kids[k], st))

\* lines 155-157: the pair is kept when it is nonzero and square
discrete_resolution_keep(resolutions, xy) ==
    [resolutions |-> IF xy.x # 0 /\ xy.y # 0 /\ xy.x = xy.y
                     THEN array_of_word_append(resolutions, xy.x)
                     ELSE resolutions,
     err |-> xy.err]

\* lines 142-158: one child of scan:DiscreteResolutions; st = [resolutions, err]
discrete_resolutions_child(n, st) ==
    IF xml_iter_node_name_match(n, "scan:DiscreteResolution")
    THEN discrete_resolution_keep(st.resolutions,
             discrete_resolution_xy(n.kids, 1, [x |-> 0, y |-> 0, err |-> st.err]))
    ELSE st

\* lines 141-159
RECURSIVE discrete_resolutions_scan(_, _, _)
discrete_resolutions_scan(kids, k, st) ==
    IF st.err # NULL \/ k > Len(kids) THEN st
    ELSE discrete_resolutions_scan(kids, k + 1, discrete_resolutions_child(kids[k], st))

\* lines 162-167
discrete_resolutions_done(s, st) ==
    [err |-> st.err,
     src |-> IF array_of_word_len(st.resolutions) > 0
             THEN [s EXCEPT
                     !.flags = @ \cup {DEVCAPS_SOURCE_RES_DISCRETE},
                     !.resolutions = array_of_word_sort(st.resolutions)]
             ELSE [s EXCEPT !.resolutions = st.resolutions]]

devcaps_source_parse_discrete_resolutions(node, s) ==
    discrete_resolutions_done(s,
        discrete_resolutions_scan(node.kids, 1,
            [resolutions |-> s.resolutions, err |-> NULL]))

\* lines 191-197: one child of an axis element; st = [min, max, quant, err]
range_axis_child(n, st) ==
    IF xml_iter_node_name_match(n, "scan:Min")
    THEN SetUint(st, "min", xml_iter_node_value_uint(n, st.min))
    ELSE IF xml_iter_node_name_match(n, "scan:Max")
    THEN SetUint(st, "max", xml_iter_node_value_uint(n, st.max))
    ELSE IF xml_iter_node_name_match(n, "scan:Step")
    THEN SetUint(st, "quant", xml_iter_node_value_uint(n, st.quant))
    ELSE st

\* lines 190-198
RECURSIVE range_axis_scan(_, _, _)
range_axis_scan(kids, k, st) ==
    IF st.err # NULL \/ k > Len(kids) THEN st
    ELSE range_axis_scan(kids, k + 1, range_axis_child(kids[k], st))

AxisState(r, e) == [min |-> r.min, max |-> r.max, quant |-> r.quant, err |-> e]

SetAxis(st, field, a) ==
    [st EXCEPT ![field] = SANE_Range(a.min, a.max, a.quant), !.err = a.err]

\* lines 181-186: the range an axis element is read into.  Both tests compare
\* the name with "scan:XResolution".
range_of(n) ==
    IF xml_iter_node_name_match(n, "scan:XResolution") THEN "range_x"
    ELSE IF xml_iter_node_name_match(n, "scan:XResolution") THEN "range_y"
    ELSE "NULL"

\* lines 181-200: one child of scan:ResolutionRange; st = [range_x, range_y, err]
resolutions_range_child(n, st) ==
    IF range_of(n) # "NULL"
    THEN SetAxis(st, range_of(n),
                 range_axis_scan(n.kids, 1, AxisState(st[range_of(n)], st.err)))
    ELSE st

\* lines 180-201
RECURSIVE resolutions_range_scan(_, _, _)
resolutions_range_scan(kids, k, st) ==
    IF st.err # NULL \/ k > Len(kids) THEN st
    ELSE resolutions_range_scan(kids, k + 1, resolutions_range_child(kids[k], st))

\* lines 216-222: a quantization of 1 becomes 0
range_quant(r) == IF r.quant = 1 THEN [r EXCEPT !.quant = 0] ELSE r

\* lines 225-230: m is the result of math_range_merge
resolutions_range_merged(s, e, m) ==
    IF ~m.ok
    THEN [err |-> Some("Incompatible scan:XResolution and scan:YResolution ranges"),
          src |-> [s EXCEPT !.res_range = m.out]]
    ELSE [err |-> e,
          src |-> [s EXCEPT !.res_range = m.out,
                            !.flags = @ \cup {DEVCAPS_SOURCE_RES_RANGE}]]

\* lines 204-233
resolutions_range_done(s, st) ==
    IF st.range_x.min > st.range_x.max
    THEN [err |-> Some("Invalid scan:XResolution range"), src |-> s]
    ELSE IF st.range_y.min > st.range_y.max
    THEN [err |-> Some("Invalid scan:YResolution range"), src |-> s]
    ELSE resolutions_range_merged(s, st.err,
             math_range_merge(s.res_range, range_quant(st.range_x),
                              range_quant(st.range_y)))

devcaps_source_parse_resolutions_range(node, s) ==
    resolutions_range_done(s,
        resolutions_range_scan(node.kids, 1,
            [range_x |-> SANE_Range(0, 0, 0),
             range_y |-> SANE_Range(0, 0, 0), err |-> NULL]))

\* lines 246-250: one child of scan:SupportedResolutions; r = [err, src]
resolutions_child(n, r) ==
    IF xml_iter_node_name_match(n, "scan:DiscreteResolutions")
    THEN devcaps_source_parse_discrete_resolutions(n, r.src)
    ELSE IF xml_iter_node_name_match(n, "scan:ResolutionRange")
    THEN devcaps_source_parse_resolutions_range(n, r.src)
    ELSE r

\* lines 245-251
RECURSIVE resolutions_scan(_, _, _)
resolutions_scan(kids, k, r) ==
    IF r.err # NULL \/ k > Len(kids) THEN r
    ELSE resolutions_scan(kids, k + 1, resolutions_child(kids[k], r))

\* faulty variant: the range flag is kept next to the discrete one
prefer_discrete_keep(flags) == flags

\* lines 254-257: prefer discrete resolution, if both are provided
prefer_discrete(flags) ==
    IF DEVCAPS_SOURCE_RES_DISCRETE \in flags
    THEN flags \ {DEVCAPS_SOURCE_RES_RANGE}
    ELSE flags

\* lines 259-263
resolutions_defined(e, s) ==
    [err |-> IF s.flags \cap {DEVCAPS_SOURCE_RES_DISCRETE,
                              DEVCAPS_SOURCE_RES_RANGE} = {}
             THEN Some("Source resolutions are not defined")
             ELSE e,
     src |-> s]

\* lines 254-263
resolutions_done(r) ==
    resolutions_defined(r.err, [r.src EXCEPT !.flags = prefer_discrete(@)])

devcaps_source_parse_resolutions(node, s) ==
    resolutions_done(resolutions_scan(node.kids, 1, [err |-> NULL, src |-> s]))

\* lines 279-287: one child of scan:SettingProfile
setting_profile_child(n, r) ==
    IF xml_iter_node_name_match(n, "scan:ColorModes")
    THEN devcaps_source_parse_color_modes(n, r.src)
    ELSE IF xml_iter_node_name_match(n, "scan:DocumentFormats")
    THEN devcaps_source_parse_document_formats(n, r.src)
    ELSE IF xml_iter_node_name_match(n, "scan:SupportedResolutions")
    THEN devcaps_source_parse_resolutions(n, r.src)
    ELSE r

\* lines 278-288
RECURSIVE setting_profile_scan(_, _, _)
setting_profile_scan(kids, k, r) ==
    IF r.err # NULL \/ k > Len(kids) THEN r
    ELSE setting_profile_scan(kids, k + 1, setting_profile_child(kids[k], r))

\* lines 275-291: the children of scan:SettingProfiles
RECURSIVE setting_profiles_scan(_, _, _)
setting_profiles_scan(kids, k, r) ==
    IF r.err # NULL \/ k > Len(kids) THEN r
    ELSE setting_profiles_scan(kids, k + 1,
             IF xml_iter_node_name_match(kids[k], "scan:SettingProfile")
             THEN setting_profile_scan(kids[k].kids, 1, r)
             ELSE r)

devcaps_source_parse_setting_profiles(node, s) ==
    setting_profiles_scan(node.kids, 1, [err |-> NULL, src |-> s])

\* an assignment err = xml_iter_node_value_uint(iter, &src->field)
SetSrcUint(s, field, v) == [err |-> v.err, src |-> [s EXCEPT ![field] = v.val]]

\* lines 308-318: one child of a source block
source_child(n, r) ==
    IF xml_iter_node_name_match(n, "scan:MinWidth")
    THEN SetSrcUint(r.src, "min_width", xml_iter_node_value_uint(n, r.src.min_width))
    ELSE IF xml_iter_node_name_match(n, "scan:MaxWidth")
    THEN SetSrcUint(r.src, "max_width", xml_iter_node_value_uint(n, r.src.max_width))
    ELSE IF xml_iter_node_name_match(n, "scan:MinHeight")
    THEN SetSrcUint(r.src, "min_height", xml_iter_node_value_uint(n, r.src.min_height))
    ELSE IF xml_iter_node_name_match(n, "scan:MaxHeight")
    THEN SetSrcUint(r.src, "max_height", xml_iter_node_value_uint(n, r.src.max_height))
    ELSE IF xml_iter_node_name_match(n, "scan:SettingProfiles")
    THEN devcaps_source_parse_setting_profiles(n, r.src)
    ELSE r

\* lines 307-319
RECURSIVE source_scan(_, _, _)
source_scan(kids, k, r) ==
    IF r.err # NULL \/ k > Len(kids) THEN r
    ELSE source_scan(kids, k + 1, source_child(kids[k], r))

\* SANE_FIX(pixels * 25.4 / 300): millimeters as a 16.16 fixed-point number
SANE_FIX_mm(pixels) == (pixels * 254 * 65536) \div 3000

\* line 326: the window is validated when both maximal bounds are given
has_window(s) == s.max_width # 0 /\ s.max_height # 0

\* the window in millimeters
source_window_mm(s) ==
    [err |-> NULL,
     src |-> [s EXCEPT
         !.flags = @ \cup {DEVCAPS_SOURCE_HAS_SIZE},
         !.win_x_range = SANE_Range(SANE_FIX_mm(s.min_width),
                                    SANE_FIX_mm(s.max_width), 0),
         !.win_y_range = SANE_Range(SANE_FIX_mm(s.min_height),
                                    SANE_FIX_mm(s.max_height), 0)]]

\* faulty variant: a window whose minimum equals its maximum is accepted
source_window_nonstrict(s) ==
    IF has_window(s)
    THEN IF s.min_width > s.max_width
         THEN [err |-> Some("Invalid scan:MinWidth or scan:MaxWidth"), src |-> s]
         ELSE IF s.min_height > s.max_height
         THEN [err |-> Some("Invalid scan:MinHeight or scan:MaxHeight"), src |-> s]
         ELSE source_window_mm(s)
    ELSE [err |-> NULL, src |-> s]

\* lines 326-347: validate window size, recompute to millimeters
source_window(s) ==
    IF has_window(s)
    THEN IF s.min_width >= s.max_width
         THEN [err |-> Some("Invalid scan:MinWidth or scan:MaxWidth"), src |-> s]
         ELSE IF s.min_height >= s.max_height
         THEN [err |-> Some("Invalid scan:MinHeight or scan:MaxHeight"), src |-> s]
         ELSE source_window_mm(s)
    ELSE [err |-> NULL, src |-> s]

\* lines 322-347
source_checked(r) == IF r.err # NULL THEN r ELSE source_window(r.src)

\* devcaps_source_parse, lines 303-347: the source built from a block, up to
\* the DONE label
source_build(node) ==
    source_checked(source_scan(node.kids, 1,
                               [err |-> NULL, src |-> devcaps_source_new]))

\* faulty variant: a later block of the same kind replaces the stored source
source_done_replace(e, s, out) == IF e # NULL THEN out ELSE Some(s)

\* devcaps_source_parse, lines 349-359: what *out holds at the return
source_done(e, s, out) ==
    IF e # NULL THEN out
    ELSE IF out = NULL THEN Some(s)
    ELSE out

\* devcaps_source_parse as a whole: [err, out]
source_result(r, out) == [err |-> r.err, out |-> source_done(r.err, r.src, out)]

devcaps_source_parse(node, out) == source_result(source_build(node), out)

(***************************************************************************)
(* The sub-parsers as they move the cursor.  w = [r, it]: r the state of   *)
(* the parser (as in the definitions above), it the cursor.  A loop        *)
(*   for (; err == NULL && !xml_iter_end(iter); xml_iter_next(iter))       *)
(* runs its body and then xml_iter_next, until the test fails.             *)
(***************************************************************************)

Walk(r, it) == [r |-> r, it |-> it]

walk_enter(w) == Walk(w.r, xml_iter_enter(w.it))

walk_next(w) == Walk(w.r, xml_iter_next(w.it))

walk_leave(w) == Walk(w.r, xml_iter_leave(w.it))

walk_return(fn, it0, w) == Walk(w.r, iter_return(fn, it0, w.it))

\* lines 91-102; r = flags
RECURSIVE color_modes_iter(_)
color_modes_iter(w) ==
    IF xml_iter_end(w.it) THEN w
    ELSE color_modes_iter(
             walk_next(Walk(color_mode(xml_iter_node(w.it), w.r), w.it)))

\* lines 103-105
color_modes_left(s, w) ==
    Walk([err |-> NULL, src |-> [s EXCEPT !.flags = w.r]], xml_iter_leave(w.it))

\* lines 87-106
devcaps_source_parse_color_modes_iter(it, s) ==
    walk_return("devcaps_source_parse_color_modes", it,
        color_modes_left(s, color_modes_iter(Walk(s.flags, xml_iter_enter(it)))))

\* lines 114-126; r = flags
RECURSIVE document_formats_iter(_)
document_formats_iter(w) ==
    IF xml_iter_end(w.it) THEN w
    ELSE document_formats_iter(
             walk_next(Walk(document_format(xml_iter_node(w.it), w.r), w.it)))

\* lines 110-130
devcaps_source_parse_document_formats_iter(it, s) ==
    walk_return("devcaps_source_parse_document_formats", it,
        color_modes_left(s,
            document_formats_iter(Walk(s.flags, xml_iter_enter(it)))))

\* lines 145-152; r = [x, y, err]
RECURSIVE discrete_resolution_xy_iter(_)
discrete_resolution_xy_iter(w) ==
    IF w.r.err # NULL \/ xml_iter_end(w.it) THEN w
    ELSE discrete_resolution_xy_iter(
             walk_next(Walk(discrete_resolution_child(xml_iter_node(w.it), w.r),
                            w.it)))

\* lines 153-157
discrete_resolution_left(resolutions, w) ==
    Walk(discrete_resolution_keep(resolutions, w.r), xml_iter_leave(w.it))

\* lines 142-158; r = [resolutions, err]
discrete_resolutions_child_iter(w) ==
    IF xml_iter_node_name_match(xml_iter_node(w.it), "scan:DiscreteResolution")
    THEN discrete_resolution_left(w.r.resolutions,
             discrete_resolution_xy_iter(
                 Walk([x |-> 0, y |-> 0, err |-> w.r.err], xml_iter_enter(w.it))))
    ELSE w

\* lines 141-159
RECURSIVE discrete_resolutions_iter(_)
discrete_resolutions_iter(w) ==
    IF w.r.err # NULL \/ xml_iter_end(w.it) THEN w
    ELSE discrete_resolutions_iter(walk_next(discrete_resolutions_child_iter(w)))

\* faulty variant: an error inside scan:DiscreteResolutions returns at once,
\* without xml_iter_leave
discrete_resolutions_leave_on_success(w) ==
    IF w.r.err # NULL THEN w ELSE walk_leave(w)

\* line 160: xml_iter_leave, whatever err is
discrete_resolutions_leave(w) == walk_leave(w)

\* lines 162-167
discrete_resolutions_finished(s, w) ==
    Walk(discrete_resolutions_done(s, w.r), w.it)

\* lines 135-168
devcaps_source_parse_discrete_resolutions_iter(it, s) ==
    walk_return("devcaps_source_parse_discrete_resolutions", it,
        discrete_resolutions_finished(s,
            discrete_resolutions_leave(
                discrete_resolutions_iter(
                    Walk([resolutions |-> s.resolutions, err |-> NULL],
                         xml_iter_enter(it))))))

\* lines 190-198; r = [min, max, quant, err]
RECURSIVE range_axis_iter(_)
range_axis_iter(w) ==
    IF w.r.err # NULL \/ xml_iter_end(w.it) THEN w
    ELSE range_axis_iter(
             walk_next(Walk(range_axis_child(xml_iter_node(w.it), w.r), w.it)))

\* line 199 and the range the axis was read into
range_axis_left(st, field, w) ==
    Walk(SetAxis(st, field, w.r), xml_iter_leave(w.it))

\* lines 188-200
range_axis_entered(st, field, it) ==
    range_axis_left(st, field,
        range_axis_iter(Walk(AxisState(st[field], st.err), xml_iter_enter(it))))

\* lines 181-200; r = [range_x, range_y, err]
resolutions_range_child_iter(w) ==
    IF range_of(xml_iter_node(w.it)) # "NULL"
    THEN range_axis_entered(w.r, range_of(xml_iter_node(w.it)), w.it)
    ELSE w

\* lines 180-201
RECURSIVE resolutions_range_iter(_)
resolutions_range_iter(w) ==
    IF w.r.err # NULL \/ xml_iter_end(w.it) THEN w
    ELSE resolutions_range_iter(walk_next(resolutions_range_child_iter(w)))

\* lines 204-233
resolutions_range_finished(s, w) == Walk(resolutions_range_done(s, w.r), w.it)

\* lines 173-234
devcaps_source_parse_resolutions_range_iter(it, s) ==
    walk_return("devcaps_source_parse_resolutions_range", it,
        resolutions_range_finished(s,
            walk_leave(
                resolutions_range_iter(
                    Walk([range_x |-> SANE_Range(0, 0, 0),
                          range_y |-> SANE_Range(0, 0, 0), err |-> NULL],
                         xml_iter_enter(it))))))

\* lines 246-250; r = [err, src]
resolutions_child_iter(w) ==
    IF xml_iter_node_name_match(xml_iter_node(w.it), "scan:DiscreteResolutions")
    THEN devcaps_source_parse_discrete_resolutions_iter(w.it, w.r.src)
    ELSE IF xml_iter_node_name_match(xml_iter_node(w.it), "scan:ResolutionRange")
    THEN devcaps_source_parse_resolutions_range_iter(w.it, w.r.src)
    ELSE w

\* lines 245-251
RECURSIVE resolutions_iter(_)
resolutions_iter(w) ==
    IF w.r.err # NULL \/ xml_iter_end(w.it) THEN w
    ELSE resolutions_iter(walk_next(resolutions_child_iter(w)))

\* lines 254-263
resolutions_finished(w) == Walk(resolutions_done(w.r), w.it)

\* lines 239-264
devcaps_source_parse_resolutions_iter(it, s) ==
    walk_return("devcaps_source_parse_resolutions", it,
        resolutions_finished(
            walk_leave(
                resolutions_iter(Walk([err |-> NULL, src |-> s],
                                      xml_iter_enter(it))))))

\* lines 279-287; r = [err, src]
setting_profile_child_iter(w) ==
    IF xml_iter_node_name_match(xml_iter_node(w.it), "scan:ColorModes")
    THEN devcaps_source_parse_color_modes_iter(w.it, w.r.src)
    ELSE IF xml_iter_node_name_match(xml_iter_node(w.it), "scan:DocumentFormats")
    THEN devcaps_source_parse_document_formats_iter(w.it, w.r.src)
    ELSE IF xml_iter_node_name_match(xml_iter_node(w.it),
                                     "scan:SupportedResolutions")
    THEN devcaps_source_parse_resolutions_iter(w.it, w.r.src)
    ELSE w

\* lines 278-288
RECURSIVE setting_profile_iter(_)
setting_profile_iter(w) ==
    IF w.r.err # NULL \/ xml_iter_end(w.it) THEN w
    ELSE setting_profile_iter(walk_next(setting_profile_child_iter(w)))

\* lines 276-290
setting_profiles_child_iter(w) ==
    IF xml_iter_node_name_match(xml_iter_node(w.it), "scan:SettingProfile")
    THEN walk_leave(setting_profile_iter(walk_enter(w)))
    ELSE w

\* lines 275-291
RECURSIVE setting_profiles_iter(_)
setting_profiles_iter(w) ==
    IF w.r.err # NULL \/ xml_iter_end(w.it) THEN w
    ELSE setting_profiles_iter(walk_next(setting_profiles_child_iter(w)))

\* lines 269-295
devcaps_source_parse_setting_profiles_iter(it, s) ==
    walk_return("devcaps_source_parse_setting_profiles", it,
        walk_leave(
            setting_profiles_iter(Walk([err |-> NULL, src |-> s],
                                       xml_iter_enter(it)))))

\* lines 308-318; r = [err, src]
source_child_iter(w) ==
    IF xml_iter_node_name_match(xml_iter_node(w.it), "scan:SettingProfiles")
    THEN devcaps_source_parse_setting_profiles_iter(w.it, w.r.src)
    ELSE Walk(source_child(xml_iter_node(w.it), w.r), w.it)

\* lines 307-319
RECURSIVE source_iter(_)
source_iter(w) ==
    IF w.r.err # NULL \/ xml_iter_end(w.it) THEN w
    ELSE source_iter(walk_next(source_child_iter(w)))

\* lines 322-347
source_checked_iter(w) == Walk(source_checked(w.r), w.it)

\* devcaps_source_parse, lines 303-347, called with the cursor at it: the
\* source built, the error and the cursor at the DONE label; nothing moves
\* the cursor between that label and the return
devcaps_source_parse_iter(it) ==
    walk_return("devcaps_source_parse", it,
        source_checked_iter(
            walk_leave(
                source_iter(Walk([err |-> NULL, src |-> devcaps_source_new],
                                 xml_iter_enter(it))))))

(***************************************************************************)
(* devcaps                                                                 *)
(***************************************************************************)

OPTVAL_SOURCE_PLATEN == "Flatbed"

OPTVAL_SOURCE_ADF_SIMPLEX == "ADF"

OPTVAL_SOURCE_ADF_DUPLEX == "ADF Duplex"

T_Unknown == <<"U", "n", "k", "n", "o", "w", "n">>

\* devcaps_init on a zeroed structure: an empty list of sources
devcaps_init ==
    [sources |-> <<>>, vendor |-> NULL, model |-> NULL,
     src_platen |-> NULL, src_adf_simplex |-> NULL, src_adf_duplex |-> NULL]

\* faulty variant: the source of the duplex feeder survives the reset
devcaps_reset_leak(c) ==
    [sources |-> <<>>, vendor |-> NULL, model |-> NULL,
     src_platen |-> NULL, src_adf_simplex |-> NULL,
     src_adf_duplex |-> c.src_adf_duplex]

\* devcaps_reset: free all allocated memory, clear the structure
devcaps_reset(c) ==
    [sources |-> <<>>, vendor |-> NULL, model |-> NULL,
     src_platen |-> NULL, src_adf_simplex |-> NULL, src_adf_duplex |-> NULL]

\* g_str_has_suffix
g_str_has_suffix(str, suffix) ==
    /\ Len(suffix) <= Len(str)
    /\ SubSeq(str, Len(str) - Len(suffix) + 1, Len(str)) = suffix

\* g_strndup
g_strndup(str, n) == SubSeq(str, 1, Min2(n, Len(str)))

\* g_strchomp: trailing whitespace removed
RECURSIVE g_strchomp(_)
g_strchomp(str) ==
    IF Len(str) > 0 /\ str[Len(str)] = " "
    THEN g_strchomp(SubSeq(str, 1, Len(str) - 1))
    ELSE str

\* faulty variant: the trailing whitespace of the vendor is kept
guess_vendor_nochomp(vendor, m, mm) ==
    IF /\ m # NULL /\ Len(Deref(m)) # 0
       /\ mm # NULL /\ Len(Deref(mm)) > Len(Deref(m))
       /\ g_str_has_suffix(Deref(mm), Deref(m))
    THEN Some(g_strndup(Deref(mm), Len(Deref(mm)) - Len(Deref(m))))
    ELSE IF vendor = NULL THEN Some(T_Unknown)
    ELSE vendor

\* lines 416-430: try to guess vendor
StrLen(p) == IF p # NULL THEN Len(Deref(p)) ELSE 0

guess_vendor(vendor, m, mm) ==
    IF /\ StrLen(m) # 0
       /\ StrLen(mm) > StrLen(m)
       /\ g_str_has_suffix(Deref(mm), Deref(m))
    THEN Some(g_strchomp(g_strndup(Deref(mm), StrLen(mm) - StrLen(m))))
    ELSE IF vendor = NULL THEN Some(T_Unknown)
    ELSE vendor

\* lines 432-438: save model
save_model(m, mm) ==
    IF m # NULL THEN m ELSE IF mm # NULL THEN mm ELSE NULL

\* lines 440-451: update list of sources
update_sources(c) ==
    (IF c.src_platen # NULL THEN <<OPTVAL_SOURCE_PLATEN>> ELSE <<>>)
    \o (IF c.src_adf_simplex # NULL THEN <<OPTVAL_SOURCE_ADF_SIMPLEX>> ELSE <<>>)
    \o (IF c.src_adf_duplex # NULL THEN <<OPTVAL_SOURCE_ADF_DUPLEX>> ELSE <<>>)

(***************************************************************************)
(* devcaps_parse, one action per step of the walk over the document.       *)
(* pc: "start" at the call, "root" on child i of the root, "adf" on child  *)
(* j of a scan:Adf element, "source" at a call of devcaps_source_parse,    *)
(* "source_DONE" at its DONE label, "DONE" at the DONE label of            *)
(* devcaps_parse, "returned" after the return.                             *)
(***************************************************************************)

AtRoot == pc = "root" /\ i <= Len(xml.kids)

CurRoot == xml.kids[i]

AtAdf == pc = "adf" /\ j <= Len(CurRoot.kids)

CurAdf == CurRoot.kids[j]

\* the block the cursor is on at a call of devcaps_source_parse
CurBlock == IF kind = "platen" THEN CurRoot.kids[1] ELSE CurAdf

\* the slot of caps the call of devcaps_source_parse was given
Slot(c, k) ==
    IF k = "platen" THEN c.src_platen
    ELSE IF k = "adf_simplex" THEN c.src_adf_simplex
    ELSE c.src_adf_duplex

SetSlot(c, k, v) ==
    IF k = "platen" THEN [c EXCEPT !.src_platen = v]
    ELSE IF k = "adf_simplex" THEN [c EXCEPT !.src_adf_simplex = v]
    ELSE [c EXCEPT !.src_adf_duplex = v]

\* lines 411-413 and the step of the loop of line 384
AfterChild(e) ==
    IF e # NULL THEN pc' = "DONE" /\ i' = i
    ELSE pc' = "root" /\ i' = i + 1

\* the cursor after a child of the root: lines 411-413, then xml_iter_next of
\* line 384
IterAfterChild(e, it) == iter' = IF e # NULL THEN it ELSE xml_iter_next(it)

\* lines 377-383
Start ==
    /\ pc = "start"
    /\ IF ~xml_iter_node_name_match(xml, "scan:ScannerCapabilities")
       THEN err' = Some("XML: missed scan:ScannerCapabilities") /\ pc' = "DONE" /\ i' = i
       ELSE err' = err /\ pc' = "root" /\ i' = 1
    /\ iter' = IF xml_iter_node_name_match(xml, "scan:ScannerCapabilities")
               THEN xml_iter_enter(xml_iter_init(iter, xml))
               ELSE xml_iter_init(iter, xml)
    /\ UNCHANGED <<xml, j, model, make_and_model, caps, kind, src, wanted, chosen>>

\* lines 385-387
ModelName ==
    /\ AtRoot
    /\ xml_iter_node_name_match(CurRoot, "pwg:ModelName")
    /\ model' = Some(xml_iter_node_value(CurRoot))
    /\ AfterChild(err)
    /\ IterAfterChild(err, iter)
    /\ UNCHANGED <<xml, j, err, make_and_model, caps, kind, src, wanted, chosen>>

\* lines 388-390
MakeAndModel ==
    /\ AtRoot
    /\ xml_iter_node_name_match(CurRoot, "pwg:MakeAndModel")
    /\ make_and_model' = Some(xml_iter_node_value(CurRoot))
    /\ AfterChild(err)
    /\ IterAfterChild(err, iter)
    /\ UNCHANGED <<xml, j, err, model, caps, kind, src, wanted, chosen>>

\* lines 391-394: the first child of scan:Platen is scan:PlatenInputCaps
PlatenInputCaps ==
    /\ AtRoot
    /\ xml_iter_node_name_match(CurRoot, "scan:Platen")
    /\ Len(CurRoot.kids) > 0
    /\ xml_iter_node_name_match(CurRoot.kids[1], "scan:PlatenInputCaps")
    /\ pc' = "source"
    /\ kind' = "platen"
    /\ iter' = xml_iter_enter(iter)
    /\ UNCHANGED <<xml, i, j, err, model, make_and_model, caps, src, wanted, chosen>>

\* lines 391-396: scan:Platen has no child, or its first child is another element
PlatenOther ==
    /\ AtRoot
    /\ xml_iter_node_name_match(CurRoot, "scan:Platen")
    /\ ~(/\ Len(CurRoot.kids) > 0
         /\ xml_iter_node_name_match(CurRoot.kids[1], "scan:PlatenInputCaps"))
    /\ AfterChild(err)
    /\ IterAfterChild(err, xml_iter_leave(xml_iter_enter(iter)))
    /\ UNCHANGED <<xml, j, err, model, make_and_model, caps, kind, src, wanted, chosen>>

\* lines 397-398
AdfEnter ==
    /\ AtRoot
    /\ xml_iter_node_name_match(CurRoot, "scan:Adf")
    /\ pc' = "adf"
    /\ j' = 1
    /\ iter' = xml_iter_enter(iter)
    /\ UNCHANGED <<xml, i, err, model, make_and_model, caps, kind, src, wanted, chosen>>

\* lines 400-401
AdfSimplexInputCaps ==
    /\ AtAdf
    /\ xml_iter_node_name_match(CurAdf, "scan:AdfSimplexInputCaps")
    /\ pc' = "source"
    /\ kind' = "adf_simplex"
    /\ UNCHANGED <<xml, i, j, err, model, make_and_model, caps, src, wanted, chosen, iter>>

\* lines 402-404
AdfDuplexInputCaps ==
    /\ AtAdf
    /\ ~xml_iter_node_name_match(CurAdf, "scan:AdfSimplexInputCaps")
    /\ xml_iter_node_name_match(CurAdf, "scan:AdfDuplexInputCaps")
    /\ pc' = "source"
    /\ kind' = "adf_duplex"
    /\ UNCHANGED <<xml, i, j, err, model, make_and_model, caps, src, wanted, chosen, iter>>

\* line 406: another child of scan:Adf
AdfOther ==
    /\ AtAdf
    /\ ~xml_iter_node_name_match(CurAdf, "scan:AdfSimplexInputCaps")
    /\ ~xml_iter_node_name_match(CurAdf, "scan:AdfDuplexInputCaps")
    /\ j' = j + 1
    /\ iter' = xml_iter_next(iter)
    /\ UNCHANGED <<xml, pc, i, err, model, make_and_model, caps, kind, src, wanted, chosen>>

\* lines 399, 408-413: the children of scan:Adf are exhausted
AdfLeave ==
    /\ pc = "adf"
    /\ j > Len(CurRoot.kids)
    /\ AfterChild(err)
    /\ IterAfterChild(err, xml_iter_leave(iter))
    /\ UNCHANGED <<xml, j, err, model, make_and_model, caps, kind, src, wanted, chosen>>

\* lines 384, 411-414: any other child of the root
RootOther ==
    /\ AtRoot
    /\ ~xml_iter_node_name_match(CurRoot, "pwg:ModelName")
    /\ ~xml_iter_node_name_match(CurRoot, "pwg:MakeAndModel")
    /\ ~xml_iter_node_name_match(CurRoot, "scan:Platen")
    /\ ~xml_iter_node_name_match(CurRoot, "scan:Adf")
    /\ AfterChild(err)
    /\ IterAfterChild(err, iter)
    /\ UNCHANGED <<xml, j, err, model, make_and_model, caps, kind, src, wanted, chosen>>

\* the source built, the error and the cursor at the DONE label of
\* devcaps_source_parse
SourceBuilt(w) == src' = Some(w.r.src) /\ err' = w.r.err /\ iter' = w.it

\* devcaps_source_parse, lines 303-347; its result is assigned to err by the
\* caller (lines 394, 401, 404)
SourceParse ==
    /\ pc = "source"
    /\ SourceBuilt(devcaps_source_parse_iter(iter))
    /\ pc' = "source_DONE"
    /\ UNCHANGED <<xml, i, j, model, make_and_model, caps, kind, wanted, chosen>>

\* devcaps_source_parse, lines 349-361, and the return to the caller: line 396
\* for scan:Platen, line 406 for scan:Adf
SourceDone ==
    /\ pc = "source_DONE"
    /\ caps' = SetSlot(caps, kind, source_done(err, Deref(src), Slot(caps, kind)))
    /\ src' = NULL
    /\ IF kind = "platen"
       THEN AfterChild(err) /\ j' = j /\ IterAfterChild(err, xml_iter_leave(iter))
       ELSE pc' = "adf" /\ j' = j + 1 /\ i' = i /\ iter' = xml_iter_next(iter)
    /\ UNCHANGED <<xml, err, model, make_and_model, kind, wanted, chosen>>

\* lines 384, 416-451: the children of the root are exhausted
Finish ==
    /\ pc = "root"
    /\ i > Len(xml.kids)
    /\ caps' = [caps EXCEPT
                    !.vendor = guess_vendor(caps.vendor, model, make_and_model),
                    !.model = save_model(model, make_and_model),
                    !.sources = @ \o update_sources(caps)]
    /\ model' = NULL
    /\ make_and_model' = IF model # NULL THEN make_and_model ELSE NULL
    /\ pc' = "DONE"
    /\ UNCHANGED <<xml, i, j, err, kind, src, wanted, chosen, iter>>

\* lines 453-462
Done ==
    /\ pc = "DONE"
    /\ caps' = IF err # NULL THEN devcaps_reset(caps) ELSE caps
    /\ model' = NULL
    /\ make_and_model' = NULL
    /\ pc' = "returned"
    /\ UNCHANGED <<xml, i, j, err, kind, src, wanted, chosen, iter>>

(***************************************************************************)
(* devcaps_parse as a function of the document: the same steps, taken in   *)
(* one go.  st = [err, model, make_and_model, caps].                       *)
(***************************************************************************)

\* lines 394, 401, 404: err and the slot after a call of devcaps_source_parse
source_parsed(st, k, r) == [st EXCEPT !.err = r.err, !.caps = SetSlot(@, k, r.out)]

\* lines 400-405: one child of scan:Adf
adf_child(n, st) ==
    IF xml_iter_node_name_match(n, "scan:AdfSimplexInputCaps")
    THEN source_parsed(st, "adf_simplex",
                       devcaps_source_parse(n, st.caps.src_adf_simplex))
    ELSE IF xml_iter_node_name_match(n, "scan:AdfDuplexInputCaps")
    THEN source_parsed(st, "adf_duplex",
                       devcaps_source_parse(n, st.caps.src_adf_duplex))
    ELSE st

\* lines 399-407
RECURSIVE adf_scan(_, _, _)
adf_scan(kids, k, st) ==
    IF k > Len(kids) THEN st
    ELSE adf_scan(kids, k + 1, adf_child(kids[k], st))

\* lines 385-409: one child of the root
root_child(n, st) ==
    IF xml_iter_node_name_match(n, "pwg:ModelName")
    THEN [st EXCEPT !.model = Some(xml_iter_node_value(n))]
    ELSE IF xml_iter_node_name_match(n, "pwg:MakeAndModel")
    THEN [st EXCEPT !.make_and_model = Some(xml_iter_node_value(n))]
    ELSE IF xml_iter_node_name_match(n, "scan:Platen")
    THEN IF /\ Len(n.kids) > 0
            /\ xml_iter_node_name_match(n.kids[1], "scan:PlatenInputCaps")
         THEN source_parsed(st, "platen",
                            devcaps_source_parse(n.kids[1], st.caps.src_platen))
         ELSE st
    ELSE IF xml_iter_node_name_match(n, "scan:Adf")
    THEN adf_scan(n.kids, 1, st)
    ELSE st

\* lines 384-414: the loop ends at the first child that leaves an error
RECURSIVE root_scan(_, _, _)
root_scan(kids, k, st) ==
    IF st.err # NULL \/ k > Len(kids) THEN st
    ELSE root_scan(kids, k + 1, root_child(kids[k], st))

\* lines 416-462
devcaps_parse_done(st) ==
    IF st.err # NULL
    THEN [err |-> st.err, caps |-> devcaps_reset(st.caps)]
    ELSE [err |-> NULL,
          caps |-> [st.caps EXCEPT
              !.vendor = guess_vendor(@, st.model, st.make_and_model),
              !.model = save_model(st.model, st.make_and_model),
              !.sources = @ \o update_sources(st.caps)]]

\* devcaps_parse: [err, caps], from the document and the initialized caps
devcaps_parse(c, doc) ==
    IF ~xml_iter_node_name_match(doc, "scan:ScannerCapabilities")
    THEN [err |-> Some("XML: missed scan:ScannerCapabilities"),
          caps |-> devcaps_reset(c)]
    ELSE devcaps_parse_done(
             root_scan(doc.kids, 1,
                       [err |-> NULL, model |-> NULL, make_and_model |-> NULL,
                        caps |-> c]))

(***************************************************************************)
(* Capability documents the parser is run on.                              *)
(***************************************************************************)

MaxRoot == 2

MaxAdf == 2

MaxResolutions == 3

MaxWanted == 320

Leaf(name, text) == Node(name, text, <<>>)

Elem(name, kids) == Node(name, <<>>, kids)

RECURSIVE UintText(_)
UintText(n) ==
    IF n < 10 THEN <<Digits[n + 1]>>
    ELSE UintText(n \div 10) \o <<Digits[(n % 10) + 1]>>

UintLeaf(name, n) == Leaf(name, UintText(n))

\* an element no parser knows
Extension == Elem("vendor:Extension", <<>>)

T_10mm == <<"1", "0", "m", "m">>

T_IMAGE_JPEG == <<"I", "M", "A", "G", "E", "/", "J", "P", "E", "G">>

ColorModes ==
    Elem("scan:ColorModes",
         <<Leaf("scan:ColorMode", T_Grayscale8), Leaf("scan:ColorMode", T_RGB24)>>)

DocumentFormats ==
    Elem("scan:DocumentFormats",
         <<Leaf("pwg:DocumentFormat", T_IMAGE_JPEG),
           Leaf("scan:DocumentFormatExt", T_application_pdf)>>)

DiscreteResolution(x, y) ==
    Elem("scan:DiscreteResolution",
         <<UintLeaf("scan:XResolution", x), UintLeaf("scan:YResolution", y)>>)

\* 300, 75, 150 and one entry that is not square
DR == Elem("scan:DiscreteResolutions",
           <<DiscreteResolution(300, 300), DiscreteResolution(75, 75),
             Extension,
             DiscreteResolution(100, 200), DiscreteResolution(150, 150)>>)

DR2 == Elem("scan:DiscreteResolutions",
            <<DiscreteResolution(200, 200), DiscreteResolution(100, 100)>>)

\* no valid entry
DRnone == Elem("scan:DiscreteResolutions",
               <<DiscreteResolution(100, 200), DiscreteResolution(0, 0)>>)

DRbad == Elem("scan:DiscreteResolutions",
              <<Elem("scan:DiscreteResolution",
                     <<Leaf("scan:XResolution", T_10mm),
                       UintLeaf("scan:YResolution", 75)>>)>>)

\* an axis of a range; a negative step stands for no scan:Step element
Axis(name, min, max, step) ==
    Elem(name,
         <<UintLeaf("scan:Min", min), UintLeaf("scan:Max", max)>>
         \o (IF step < 0 THEN <<>> ELSE <<UintLeaf("scan:Step", step)>>))

\* the same {min, max, step} on both axes
RR(min, max, step) ==
    Elem("scan:ResolutionRange",
         <<Axis("scan:XResolution", min, max, step),
           Axis("scan:YResolution", min, max, step)>>)

SupportedResolutions(kids) == Elem("scan:SupportedResolutions", kids)

SettingProfile(kids) == Elem("scan:SettingProfile", kids)

SettingProfiles(kids) == Elem("scan:SettingProfiles", kids)

\* one profile with color modes, formats and the given resolutions
Profile(res) ==
    SettingProfiles(<<SettingProfile(<<ColorModes, DocumentFormats,
                                       SupportedResolutions(res)>>)>>)

\* two profiles, each with its own resolutions
Profile2(res1, res2) ==
    SettingProfiles(<<SettingProfile(<<ColorModes, SupportedResolutions(res1)>>),
                      Extension,
                      SettingProfile(<<SupportedResolutions(res2), DocumentFormats>>)>>)

\* the resolution parts of a block: the children of scan:SupportedResolutions
ResolutionKids ==
    { <<>>, <<Extension>>,
      <<DR>>, <<DR2>>, <<DRnone>>, <<DRbad>>,
      <<RR(0, 600, 1)>>, <<RR(0, 600, 25)>>, <<RR(0, 0, -1)>>,
      <<RR(75, 600, 1)>>, <<RR(75, 600, -1)>>, <<RR(75, 600, 25)>>,
      <<RR(600, 75, 1)>>,
      <<DR, RR(0, 600, 1)>>, <<RR(0, 600, 1), DR>>,
      <<DRnone, RR(0, 600, 1)>>, <<RR(0, 600, 25), DRnone>>,
      <<DR, RR(75, 600, 1)>> }

\* the profile parts of a block: the scan:SettingProfiles children, if any
ProfileKids ==
    { <<>>,
      <<SettingProfiles(<<>>)>>,
      <<SettingProfiles(<<SettingProfile(<<ColorModes, DocumentFormats>>)>>)>>,
      <<Profile2(<<DR>>, <<RR(0, 600, 1)>>)>>,
      <<Profile2(<<RR(0, 600, 1)>>, <<DR>>)>>,
      <<Profile2(<<DR>>, <<>>)>>,
      <<Profile2(<<>>, <<DR>>)>>,
      <<Profile2(<<DR2>>, <<DR>>)>> }
    \cup { <<Profile(res)>> : res \in ResolutionKids }

\* the window parts of a block
WindowKids ==
    { <<>>,
      <<UintLeaf("scan:MinWidth", 10), UintLeaf("scan:MaxWidth", 20),
        UintLeaf("scan:MinHeight", 10), UintLeaf("scan:MaxHeight", 30)>>,
      <<UintLeaf("scan:MinWidth", 20), UintLeaf("scan:MaxWidth", 10)>>,
      <<UintLeaf("scan:MinWidth", 20), UintLeaf("scan:MaxWidth", 10),
        UintLeaf("scan:MinHeight", 0), UintLeaf("scan:MaxHeight", 0)>>,
      <<UintLeaf("scan:MinWidth", 20), UintLeaf("scan:MaxWidth", 10),
        UintLeaf("scan:MinHeight", 10), UintLeaf("scan:MaxHeight", 30)>>,
      <<UintLeaf("scan:MinWidth", 20), UintLeaf("scan:MaxWidth", 20),
        UintLeaf("scan:MinHeight", 10), UintLeaf("scan:MaxHeight", 30)>>,
      <<UintLeaf("scan:MinHeight", 30), UintLeaf("scan:MaxHeight", 10)>>,
      <<UintLeaf("scan:MinWidth", 10), UintLeaf("scan:MaxWidth", 20),
        UintLeaf("scan:MinHeight", 30), UintLeaf("scan:MaxHeight", 10)>>,
      <<UintLeaf("scan:MinWidth", 10), UintLeaf("scan:MaxWidth", 20),
        Extension, UintLeaf("scan:MaxHeight", 30)>>,
      <<Leaf("scan:MinWidth", T_10mm), UintLeaf("scan:MaxWidth", 20)>> }

\* the children of a source block
BlockKids == { w \o p : w \in WindowKids, p \in ProfileKids }

\* a few blocks for the documents with several sources
GoodKids == <<UintLeaf("scan:MinWidth", 10), UintLeaf("scan:MaxWidth", 20),
              UintLeaf("scan:MinHeight", 10), UintLeaf("scan:MaxHeight", 30),
              Profile(<<DR>>)>>

Good2Kids == <<Profile(<<DR2>>)>>

BadKids == <<Profile(<<>>)>>

FewKids == {GoodKids, Good2Kids, BadKids}

Platen(kids) == Elem("scan:Platen", kids)

Adf(kids) == Elem("scan:Adf", kids)

PlatenCaps(kids) == Elem("scan:PlatenInputCaps", kids)

AdfSimplexCaps(kids) == Elem("scan:AdfSimplexInputCaps", kids)

AdfDuplexCaps(kids) == Elem("scan:AdfDuplexInputCaps", kids)

T_X == <<"X">>

T_Acme_X == <<"A", "c", "m", "e", " ", "X">>

T_Y == <<"Y">>

\* the pwg:ModelName and pwg:MakeAndModel elements of the documents that carry
\* only names: empty, equal, one the suffix of the other, and unrelated texts
NameChildren ==
    { Leaf("pwg:ModelName", t) : t \in {<<>>, T_X, T_Y, T_Acme_X} }
    \cup { Leaf("pwg:MakeAndModel", t) : t \in {<<>>, T_X, T_Acme_X} }

SeqsUpTo(S, n) == UNION { [1..m -> S] : m \in 0..n }

\* the children of scan:Adf
AdfChildren ==
    {Extension} \cup { AdfSimplexCaps(k) : k \in FewKids }
                \cup { AdfDuplexCaps(k) : k \in FewKids }

AdfElements == { Adf(kids) : kids \in SeqsUpTo(AdfChildren, MaxAdf) }

\* the children of the root in the documents with several sources
RootChildren ==
    { Leaf("pwg:ModelName", T_X), Leaf("pwg:MakeAndModel", T_Acme_X), Extension,
      Platen(<<>>),
      Platen(<<Extension, PlatenCaps(GoodKids)>>),
      Platen(<<PlatenCaps(Good2Kids), PlatenCaps(BadKids)>>),
      Adf(<<AdfSimplexCaps(GoodKids), AdfDuplexCaps(Good2Kids)>>),
      Adf(<<AdfSimplexCaps(BadKids), AdfDuplexCaps(GoodKids)>>),
      Adf(<<AdfDuplexCaps(GoodKids), AdfSimplexCaps(BadKids)>>) }
    \cup { Platen(<<PlatenCaps(k)>>) : k \in FewKids }

ScannerCapabilities(kids) == Elem("scan:ScannerCapabilities", kids)

Documents ==
    { ScannerCapabilities(<<Platen(<<PlatenCaps(k)>>)>>) : k \in BlockKids }
    \cup { ScannerCapabilities(<<a>>) : a \in AdfElements }
    \cup { ScannerCapabilities(kids) : kids \in SeqsUpTo(RootChildren, MaxRoot) }
    \cup { ScannerCapabilities(kids) : kids \in SeqsUpTo(NameChildren, MaxRoot) }
    \cup { Elem("scan:Other", <<Platen(<<PlatenCaps(GoodKids)>>)>>) }

Init ==
    /\ xml \in Documents
    /\ pc = "start"
    /\ i = 0
    /\ j = 0
    /\ err = NULL
    /\ model = NULL
    /\ make_and_model = NULL
    /\ caps = devcaps_init
    /\ kind = "none"
    /\ src = NULL
    /\ wanted = 0
    /\ chosen = NULL
    /\ iter = XML_ITER_INIT

Next ==
    \/ Start
    \/ ModelName
    \/ MakeAndModel
    \/ PlatenInputCaps
    \/ PlatenOther
    \/ AdfEnter
    \/ AdfSimplexInputCaps
    \/ AdfDuplexInputCaps
    \/ AdfOther
    \/ AdfLeave
    \/ RootOther
    \/ SourceParse
    \/ SourceDone
    \/ Finish
    \/ Done

Spec == Init /\ [][Next]_vars

(***************************************************************************)
(* devcaps_source_choose_resolution on the sources a parse can leave.      *)
(***************************************************************************)

ResolutionValues == {75, 150, 300}

DiscreteSources ==
    { [devcaps_source_new EXCEPT
          !.flags = {DEVCAPS_SOURCE_RES_DISCRETE},
          !.resolutions = array_of_word_sort(s)] :
      s \in SeqsUpTo(ResolutionValues, MaxResolutions) \ {<<>>} }

RangeSources ==
    { [devcaps_source_new EXCEPT
          !.flags = {DEVCAPS_SOURCE_RES_RANGE},
          !.res_range = r] :
      r \in {SANE_Range(50, 300, 0), SANE_Range(50, 300, 25)} }

InitChoose ==
    /\ xml = ScannerCapabilities(<<>>)
    /\ pc = "choose"
    /\ i = 1
    /\ j = 0
    /\ err = NULL
    /\ model = NULL
    /\ make_and_model = NULL
    /\ caps = devcaps_init
    /\ kind = "none"
    /\ src \in { Some(s) : s \in DiscreteSources \cup RangeSources }
    /\ wanted = 0
    /\ chosen = NULL
    /\ iter = XML_ITER_INIT

ChooseResolution ==
    /\ pc = "choose"
    /\ pc' = "chosen"
    /\ \E w \in 0..MaxWanted :
          /\ wanted' = w
          /\ chosen' = Some(devcaps_source_choose_resolution(Deref(src), w))
    /\ UNCHANGED <<xml, i, j, err, model, make_and_model, caps, kind, src, iter>>

NextChoose == ChooseResolution

SpecChoose == InitChoose /\ [][NextChoose]_vars

(***************************************************************************)
(* Properties.                                                             *)
(***************************************************************************)

Returned == pc = "returned"

Kinds == {"platen", "adf_simplex", "adf_duplex"}

\* the sources caps retains
Retained == { Deref(Slot(caps, k)) : k \in {k \in Kinds : Slot(caps, k) # NULL} }

\* the blocks of a document that are handed to devcaps_source_parse, in the
\* order of the document, each with its kind
RECURSIVE AdfCalls(_, _)
AdfCalls(kids, k) ==
    IF k > Len(kids) THEN <<>>
    ELSE (IF kids[k].name = "scan:AdfSimplexInputCaps"
          THEN <<[kind |-> "adf_simplex", node |-> kids[k]]>>
          ELSE IF kids[k].name = "scan:AdfDuplexInputCaps"
          THEN <<[kind |-> "adf_duplex", node |-> kids[k]]>>
          ELSE <<>>)
         \o AdfCalls(kids, k + 1)

RECURSIVE RootCalls(_, _)
RootCalls(kids, k) ==
    IF k > Len(kids) THEN <<>>
    ELSE (IF kids[k].name = "scan:Platen"
          THEN IF Len(kids[k].kids) > 0
                  /\ kids[k].kids[1].name = "scan:PlatenInputCaps"
               THEN <<[kind |-> "platen", node |-> kids[k].kids[1]]>>
               ELSE <<>>
          ELSE IF kids[k].name = "scan:Adf"
          THEN AdfCalls(kids[k].kids, 1)
          ELSE <<>>)
         \o RootCalls(kids, k + 1)

Calls(doc) ==
    IF doc.name = "scan:ScannerCapabilities" THEN RootCalls(doc.kids, 1) ELSE <<>>

\* the block parses without an error
ParsesOk(node) == source_build(node).err = NULL

\* the devcaps structure with nothing in it
CapsEmpty ==
    /\ caps.src_platen = NULL
    /\ caps.src_adf_simplex = NULL
    /\ caps.src_adf_duplex = NULL
    /\ Len(caps.sources) = 0
    /\ caps.vendor = NULL
    /\ caps.model = NULL

\* The walk in steps and devcaps_parse in one go give the same result.
StepsAgree ==
    Returned => devcaps_parse(devcaps_init, xml) = [err |-> err, caps |-> caps]

\* C1: if a call of devcaps_source_parse made during devcaps_parse returns an
\* error, devcaps_parse returns an error, whatever block follows the failing one.
C1_SourceErrorFailsParse ==
    (Returned /\ \E k \in 1..Len(Calls(xml)) : ~ParsesOk(Calls(xml)[k].node))
        => err # NULL

\* C2: whenever devcaps_parse returns an error, the devcaps structure is empty:
\* no source of any kind, no entry in the list of sources, no vendor, no model.
C2_ErrorLeavesEmpty == (Returned /\ err # NULL) => CapsEmpty

\* C2: an error in a source block of scan:Adf met after the platen source was
\* parsed and stored.
C2_Witness ==
    /\ Returned
    /\ err = Some("Source resolutions are not defined")
    /\ i = 2
    /\ xml.kids[1] = Platen(<<PlatenCaps(GoodKids)>>)
    /\ xml.kids[2].name = "scan:Adf"
    /\ CapsEmpty

ResFlags(s) ==
    s.flags \cap {DEVCAPS_SOURCE_RES_DISCRETE, DEVCAPS_SOURCE_RES_RANGE}

\* C3: every source retained in a successfully parsed document has exactly one
\* of the flags RES_DISCRETE and RES_RANGE: a block that supplies no valid
\* discrete resolution and no range makes the parse fail.
C3_RetainedHasResolutions ==
    (Returned /\ err = NULL) => \A s \in Retained : Cardinality(ResFlags(s)) = 1

Elems(s) == { s[k] : k \in 1..Len(s) }

\* the request is equally far from a and b, a < b, and no value is closer
Tie(s, w, a, b) ==
    /\ a \in Elems(s.resolutions)
    /\ b \in Elems(s.resolutions)
    /\ a < b
    /\ labs(w - a) = labs(w - b)
    /\ \A c \in Elems(s.resolutions) : labs(w - c) >= labs(w - a)

ChosenDiscrete ==
    /\ pc = "chosen"
    /\ DEVCAPS_SOURCE_RES_DISCRETE \in Deref(src).flags

\* C4 as claimed: for a discrete source and a request equally far from two
\* supported values, the smaller of the two is chosen.
C4_TieChoosesSmaller ==
    ChosenDiscrete =>
        \A a, b \in ResolutionValues :
            Tie(Deref(src), wanted, a, b) => chosen = Some(a)

\* C4 as amended: for a discrete source and a request equally far from two
\* supported values, the larger of the two is chosen.
C4_TieChoosesLarger ==
    ChosenDiscrete =>
        \A a, b \in ResolutionValues :
            Tie(Deref(src), wanted, a, b) => chosen = Some(b)

\* C4: values {75, 150, 300}, request 225.
C4_Witness ==
    /\ ChosenDiscrete
    /\ Deref(src).resolutions = <<75, 150, 300>>
    /\ wanted = 225
    /\ Tie(Deref(src), wanted, 150, 300)
    /\ chosen = Some(300)

\* C5: for a discrete source the chosen resolution is a member of the list, no
\* member is strictly closer to the request, a request below the smallest value
\* gives the smallest and a request above the largest gives the largest.
C5_ChoosesNearest ==
    ChosenDiscrete =>
        LET r == Deref(src).resolutions
            c == Deref(chosen)
        IN /\ c \in Elems(r)
           /\ \A m \in Elems(r) : labs(wanted - m) >= labs(wanted - c)
           /\ wanted < r[1] => c = r[1]
           /\ wanted > r[Len(r)] => c = r[Len(r)]

\* C5: values {75, 150, 300}, request 290 gives 300.
C5_Witness ==
    /\ ChosenDiscrete
    /\ Deref(src).resolutions = <<75, 150, 300>>
    /\ wanted = 290
    /\ chosen = Some(300)

\* the sources a successful parse has built or retained
Built ==
    Retained \cup (IF pc = "source_DONE" /\ err = NULL THEN {Deref(src)} ELSE {})

\* C6 as claimed: every retained source with a nonzero max_width has
\* min_width < max_width, and likewise for the height, whatever the bounds of
\* the other axis are.
C6_BoundsOrdered ==
    \A s \in Built :
        /\ s.max_width # 0 => s.min_width < s.max_width
        /\ s.max_height # 0 => s.min_height < s.max_height

\* C6 as amended: every source built without an error, and every retained
\* source, with a nonzero max_width and a nonzero max_height has
\* min_width < max_width and min_height < max_height.
C6_WindowOrdered ==
    \A s \in Built :
        (s.max_width # 0 /\ s.max_height # 0)
            => (s.min_width < s.max_width /\ s.min_height < s.max_height)

\* C6: a block with both maxima given and MinWidth >= MaxWidth has made the
\* parse fail.
C6_Witness ==
    /\ Returned
    /\ err = Some("Invalid scan:MinWidth or scan:MaxWidth")
    /\ \E k \in 1..Len(Calls(xml)) :
          \E p \in ProfileKids :
              Calls(xml)[k].node.kids =
                  <<UintLeaf("scan:MinWidth", 20), UintLeaf("scan:MaxWidth", 10),
                    UintLeaf("scan:MinHeight", 10), UintLeaf("scan:MaxHeight", 30)>> \o p

\* a block whose only resolutions are one range with the same {min, max, step}
\* on both axes; a negative step stands for no scan:Step element
SymmetricRangeBlock(node, min, max, step) ==
    node.kids = <<Profile(<<RR(min, max, step)>>)>>

\* C7: a source with no discrete resolutions whose ResolutionRange gives the
\* same {Min, Max, Step}, 0 < Min <= Max, on both axes parses as Range with
\* res_range = {Min, Max, Step'}, Step' = 0 for no Step or Step = 1, else Step.
C7_SymmetricRangeParses ==
    pc = "source_DONE" =>
        \A min \in {75}, max \in {600}, step \in {-1, 1, 25} :
            SymmetricRangeBlock(CurBlock, min, max, step) =>
                /\ err = NULL
                /\ ResFlags(Deref(src)) = {DEVCAPS_SOURCE_RES_RANGE}
                /\ Deref(src).res_range =
                       SANE_Range(min, max, IF step < 2 THEN 0 ELSE step)

\* the scan:SupportedResolutions elements of a block the parser visits
Named(kids, name) == { kids[k] : k \in {k \in 1..Len(kids) : kids[k].name = name} }

SupportedOf(node) ==
    UNION { UNION { Named(p.kids, "scan:SupportedResolutions") :
                    p \in Named(ps.kids, "scan:SettingProfile") } :
            ps \in Named(node.kids, "scan:SettingProfiles") }

\* the block has a discrete resolution with equal nonzero X and Y
HasValidDiscrete(node) ==
    \E sr \in SupportedOf(node) :
        \E d \in Named(sr.kids, "scan:DiscreteResolutions") :
            \E e \in Named(d.kids, "scan:DiscreteResolution") :
                \E x \in {75, 100, 150, 200, 300} : e = DiscreteResolution(x, x)

\* the block has a resolution range
HasRange(node) ==
    \E sr \in SupportedOf(node) : Named(sr.kids, "scan:ResolutionRange") # {}

\* C8: after a successful parse of a source block RES_DISCRETE and RES_RANGE are
\* never both set, and a block that gave a valid discrete resolution and a
\* valid range leaves the source Discrete, in whatever order and profile the
\* two came.
C8_DiscreteWins ==
    /\ \A s \in Built :
          ~({DEVCAPS_SOURCE_RES_DISCRETE, DEVCAPS_SOURCE_RES_RANGE} \subseteq s.flags)
    /\ (pc = "source_DONE" /\ err = NULL
            /\ HasValidDiscrete(CurBlock) /\ HasRange(CurBlock))
        => ResFlags(Deref(src)) = {DEVCAPS_SOURCE_RES_DISCRETE}

\* C8: the range comes first, in another profile than the discrete resolutions.
C8_Witness ==
    /\ pc = "source_DONE"
    /\ err = NULL
    /\ CurBlock.kids = <<Profile2(<<RR(0, 600, 1)>>, <<DR>>)>>
    /\ HasValidDiscrete(CurBlock)
    /\ HasRange(CurBlock)
    /\ ResFlags(Deref(src)) = {DEVCAPS_SOURCE_RES_DISCRETE}

\* the first block of the kind that parses without an error, from call k on
RECURSIVE FirstGood(_, _, _)
FirstGood(calls, k, kd) ==
    IF k > Len(calls) THEN NULL
    ELSE IF calls[k].kind = kd /\ ParsesOk(calls[k].node)
    THEN Some(source_build(calls[k].node).src)
    ELSE FirstGood(calls, k + 1, kd)

\* C9: with several blocks of a kind, the source stored for the kind is the
\* first block that parsed successfully; a later block of the kind that parses
\* successfully does not replace it and causes no error.
C9_FirstGoodRetained ==
    /\ (Returned /\ err = NULL) =>
          \A kd \in Kinds : Slot(caps, kd) = FirstGood(Calls(xml), 1, kd)
    /\ (Returned /\ xml.name = "scan:ScannerCapabilities"
            /\ \A k \in 1..Len(Calls(xml)) : ParsesOk(Calls(xml)[k].node))
        => err = NULL

\* C9: two blocks of a kind that parse successfully to different sources.
C9_Witness ==
    /\ Returned
    /\ err = NULL
    /\ \E k1, k2 \in 1..Len(Calls(xml)) :
          /\ k1 < k2
          /\ Calls(xml)[k1].kind = Calls(xml)[k2].kind
          /\ ParsesOk(Calls(xml)[k1].node)
          /\ ParsesOk(Calls(xml)[k2].node)
          /\ source_build(Calls(xml)[k1].node) # source_build(Calls(xml)[k2].node)
          /\ Slot(caps, Calls(xml)[k1].kind)
                = Some(source_build(Calls(xml)[k1].node).src)

InsertAt(kids, k, e) ==
    SubSeq(kids, 1, k - 1) \o <<e>> \o SubSeq(kids, k, Len(kids))

\* the elements that differ from n by one more Extension element, put at any
\* position among the children of n or of an element below n that holds
\* elements and no text
RECURSIVE Insertions(_)
Insertions(n) ==
    IF n.text # <<>> THEN {}
    ELSE { [n EXCEPT !.kids = InsertAt(n.kids, k, Extension)] :
              k \in 1..(Len(n.kids) + 1) }
         \cup UNION { { [n EXCEPT !.kids[k] = m] : m \in Insertions(n.kids[k]) } :
                      k \in 1..Len(n.kids) }

\* C10: an element with an unknown name put anywhere into a document leaves
\* the result of devcaps_parse as it is: the same error or success, the same
\* sources.
C10_ExtensionIgnored ==
    Returned =>
        \A d \in Insertions(xml) :
            /\ (devcaps_parse(devcaps_init, d).err = NULL) = (err = NULL)
            /\ devcaps_parse(devcaps_init, d).caps = caps

\* the texts of the children of the root named name, in document order
RECURSIVE NamedTexts(_, _, _)
NamedTexts(kids, k, name) ==
    IF k > Len(kids) THEN <<>>
    ELSE (IF kids[k].name = name THEN <<kids[k].text>> ELSE <<>>)
         \o NamedTexts(kids, k + 1, name)

\* the string the document gives under name: the text of the last such
\* element, NULL when there is none
NameString(name) ==
    IF NamedTexts(xml.kids, 1, name) = <<>> THEN NULL
    ELSE Some(NamedTexts(xml.kids, 1, name)[Len(NamedTexts(xml.kids, 1, name))])

ModelString == NameString("pwg:ModelName")

MakeAndModelString == NameString("pwg:MakeAndModel")

\* both strings present, make-and-model strictly longer and ending with model
ModelIsProperSuffix ==
    /\ ModelString # NULL
    /\ MakeAndModelString # NULL
    /\ Len(Deref(MakeAndModelString)) > Len(Deref(ModelString))
    /\ g_str_has_suffix(Deref(MakeAndModelString), Deref(ModelString))

\* make-and-model without the model suffix and without trailing whitespace
VendorPrefix ==
    g_strchomp(SubSeq(Deref(MakeAndModelString), 1,
                      Len(Deref(MakeAndModelString)) - Len(Deref(ModelString))))

ModelExpected ==
    IF ModelString # NULL THEN ModelString ELSE MakeAndModelString

\* C11 (as stated): after a successful parse the vendor is set; it is the
\* make-and-model string without the model suffix, trimmed, whenever both
\* strings are present and make-and-model is strictly longer than the model
\* and ends with it, an empty model string included, and "Unknown"
\* otherwise; the model is the model string, else make-and-model, else absent.
C11_VendorDerived ==
    (Returned /\ err = NULL) =>
        /\ caps.vendor = IF ModelIsProperSuffix THEN Some(VendorPrefix)
                         ELSE Some(T_Unknown)
        /\ caps.model = ModelExpected

\* C11 (amended): the vendor is derived only when the model string is not
\* empty; with an empty model string the vendor is "Unknown".
C11_VendorDerivedNonEmptyModel ==
    (Returned /\ err = NULL) =>
        /\ caps.vendor = IF ModelIsProperSuffix /\ Len(Deref(ModelString)) > 0
                         THEN Some(VendorPrefix)
                         ELSE Some(T_Unknown)
        /\ caps.model = ModelExpected

\* a successful parse that derived the vendor "Acme" from "Acme X" and "X"
C11_Witness ==
    /\ Returned
    /\ err = NULL
    /\ ModelString = Some(T_X)
    /\ MakeAndModelString = Some(T_Acme_X)
    /\ caps.vendor = Some(<<"A", "c", "m", "e">>)
    /\ caps.model = Some(T_X)

\* the sub-parsers of devcaps_parse
SubParsers ==
    { "devcaps_source_parse", "devcaps_source_parse_setting_profiles",
      "devcaps_source_parse_resolutions",
      "devcaps_source_parse_discrete_resolutions",
      "devcaps_source_parse_resolutions_range",
      "devcaps_source_parse_color_modes",
      "devcaps_source_parse_document_formats" }

\* the path of the block devcaps_source_parse is called on
CallPath == IF kind = "platen" THEN <<i, 1>> ELSE <<i, j>>

\* C12: every sub-parser called during devcaps_parse returns, on success and
\* on error, having made as many xml_iter_leave calls as xml_iter_enter
\* calls, with the cursor at the depth and on the node of its call.
C12_CursorBalanced ==
    /\ iter.unbalanced = {}
    /\ pc = "source_DONE" =>
          /\ iter.path = CallPath
          /\ "devcaps_source_parse" \in iter.returns

\* devcaps_source_parse returns with an error on a block whose
\* scan:DiscreteResolutions holds an invalid unsigned integer, five levels
\* below the block: every loop on the way up was left early
C12_Witness ==
    /\ pc = "source_DONE"
    /\ err # NULL
    /\ Len(CurBlock.kids) > 0
    /\ CurBlock.kids[Len(CurBlock.kids)] = Profile(<<DRbad>>)
    /\ { "devcaps_source_parse", "devcaps_source_parse_setting_profiles",
         "devcaps_source_parse_resolutions",
         "devcaps_source_parse_discrete_resolutions" } \subseteq iter.returns
    /\ iter.enters >= 8
    /\ iter.enters - iter.leaves = Len(CallPath)
    /\ iter.path = CallPath

====
